---- MODULE Spec2Model ----
(***************************************************************************)
(* Model of the position-aware filling engine of main_original.py:         *)
(* EnhancedAIDocGenerator._parse_position_key, _is_position_match,         *)
(* _fill_cell_by_position, stage3_position_aware_template_filling,         *)
(* _validate_unfilled_fields and _fallback_field_mapping.                  *)
(*                                                                         *)
(* A Python str is a sequence of one-character strings.  A character that  *)
(* TLA+ strings cannot hold is written as its code point ("u7F16" is the   *)
(* single character U+7F16).  "\n" is the line feed.                       *)
(***************************************************************************)
EXTENDS Integers, Sequences, FiniteSets, TLC

VARIABLES
    pc,                 \* position of the running method
    position_key,       \* argument of _parse_position_key
    position_info,      \* value returned by _parse_position_key
    template_exists,    \* os.path.exists(template_path)
    tables,             \* doc.tables: a sequence of tables, each a sequence of rows of cell texts
    tables0,            \* doc.tables as opened (history)
    mapped_data,        \* dict, in insertion order: sequence of [key, value]
    template_structure, \* dict, in insertion order: the sequence of its keys
    position_matches,   \* dict field key -> decoded position
    filled_fields,      \* list of str
    skipped_fields,     \* list of str
    row_idx,            \* enumerate(table.rows) index
    cell_idx,           \* enumerate(row.cells) index
    field_idx,          \* position in mapped_data.items(), 1-based
    cell_text,          \* cell.text.strip() taken on entering the cell
    last_fill,          \* the last call of _fill_cell_by_position (history)
    saved,              \* the document written by doc.save, or NoDocument
    unfilled_keys,      \* list computed by _validate_unfilled_fields
    result,             \* value returned by the method
    input_data,         \* dict, in insertion order: sequence of [key, value]
    fb_mapped,          \* mapped_data of _fallback_field_mapping: sequence of [key, value]
    t_idx,              \* position in template_structure.keys(), 1-based
    i_idx               \* position in input_data.items(), 1-based

vars == <<pc, position_key, position_info, template_exists, tables, tables0,
          mapped_data, template_structure, position_matches, filled_fields,
          skipped_fields, row_idx, cell_idx, field_idx, cell_text, last_fill,
          saved, unfilled_keys, result, input_data, fb_mapped, t_idx, i_idx>>

-----------------------------------------------------------------------------
(* Python str operations *)

\* str.isspace() of one character, over the characters the model uses
IsSpace(c) == c \in {" ", "\n"}

\* a in b
IsSubstring(a, b) ==
    \E i \in 0..(Len(b) - Len(a)) : SubSeq(b, i + 1, i + Len(a)) = a

\* str.lstrip()
RECURSIVE LStrip(_)
LStrip(s) ==
    IF s # <<>> /\ IsSpace(Head(s)) THEN LStrip(Tail(s)) ELSE s

\* str.rstrip()
RECURSIVE RStrip(_)
RStrip(s) ==
    IF s # <<>> /\ IsSpace(s[Len(s)]) THEN RStrip(SubSeq(s, 1, Len(s) - 1)) ELSE s

\* str.strip()
Strip(s) == RStrip(LStrip(s))

\* index of the first occurrence of sep in s, 0 when there is none (str.find + 1)
Find(s, sep) ==
    IF IsSubstring(sep, s)
    THEN CHOOSE i \in 1..Len(s) :
            /\ i + Len(sep) - 1 <= Len(s)
            /\ SubSeq(s, i, i + Len(sep) - 1) = sep
            /\ \A j \in 1..(i - 1) : SubSeq(s, j, j + Len(sep) - 1) # sep
    ELSE 0

\* str.split(sep), sep not empty
RECURSIVE Split(_, _)
Split(s, sep) ==
    LET i == Find(s, sep) IN
    IF i = 0 THEN <<s>>
    ELSE <<SubSeq(s, 1, i - 1)>> \o Split(SubSeq(s, i + Len(sep), Len(s)), sep)

\* sep.join(parts)
RECURSIVE Join(_, _)
Join(parts, sep) ==
    IF parts = <<>> THEN <<>>
    ELSE IF Len(parts) = 1 THEN parts[1]
    ELSE parts[1] \o sep \o Join(Tail(parts), sep)

\* parts[n:], n a 0-based index
SliceFrom(parts, n) == SubSeq(parts, n + 1, Len(parts))

Digits == {"0", "1", "2", "3", "4", "5", "6", "7", "8", "9"}

DigitVal(c) ==
    CASE c = "0" -> 0 [] c = "1" -> 1 [] c = "2" -> 2 [] c = "3" -> 3
      [] c = "4" -> 4 [] c = "5" -> 5 [] c = "6" -> 6 [] c = "7" -> 7
      [] c = "8" -> 8 [] c = "9" -> 9

RECURSIVE DigitsVal(_)
DigitsVal(s) ==
    IF s = <<>> THEN 0 ELSE 10 * DigitsVal(SubSeq(s, 1, Len(s) - 1)) + DigitVal(s[Len(s)])

\* int(s): [ok |-> FALSE] stands for ValueError
ParseInt(s) ==
    LET t == Strip(s)
        signed == t # <<>> /\ t[1] \in {"-", "+"}
        body == IF signed THEN Tail(t) ELSE t
    IN  IF body # <<>> /\ \A k \in 1..Len(body) : body[k] \in Digits
        THEN [ok |-> TRUE,
              val |-> IF signed /\ t[1] = "-" THEN 0 - DigitsVal(body) ELSE DigitsVal(body)]
        ELSE [ok |-> FALSE, val |-> 0]

-----------------------------------------------------------------------------
(* _parse_position_key *)

None == [fill_type |-> "None"]

US == <<"_">>
COL == <<"c", "o", "l">>
LEFT == <<"l", "e", "f", "t">>
ROW == <<"r", "o", "w">>

\* the len(parts) < 4 test
MinParts == 4

\* parts[4] alone
FieldNameOf_FirstOnly(parts) == IF Len(parts) > MinParts THEN parts[MinParts + 1] ELSE <<>>

\* '_'.join(parts[4:])
FieldNameOf(parts) == Join(SliceFrom(parts, MinParts), US)

_parse_position_key(key) ==
    LET parts == Split(key, US) IN
    IF Len(parts) < MinParts THEN None
    ELSE LET r == ParseInt(parts[2]) IN
         IF ~r.ok THEN None
         ELSE IF parts[3] = COL
              THEN LET c == ParseInt(parts[4]) IN
                   IF ~c.ok THEN None
                   ELSE [row |-> r.val - 1,
                         col |-> c.val - 1,
                         field_name |-> FieldNameOf(parts),
                         fill_type |-> "next_cell"]
              ELSE IF parts[3] = LEFT
                   THEN [row |-> r.val - 1,
                         col |-> -1,
                         context |-> parts[4],
                         field_name |-> FieldNameOf(parts),
                         fill_type |-> "same_cell_with_context"]
                   ELSE None

-----------------------------------------------------------------------------
(* _is_position_match and _fill_cell_by_position.  A row is the sequence   *)
(* of the texts of row.cells; cell_idx is the 0-based index of the source. *)

_is_position_match(r_idx, c_idx, c_text, info, row) ==
    IF info.fill_type = "next_cell"
    THEN /\ r_idx = info.row
         /\ c_idx = info.col
         /\ IsSubstring(info.field_name, c_text)
    ELSE IF info.fill_type = "same_cell_with_context"
         THEN /\ r_idx = info.row
              /\ IsSubstring(info.field_name, c_text)
              /\ c_idx > 0
              /\ IsSubstring(info.context, row[c_idx])
         ELSE FALSE

\* the value written to the matched cell instead of its right neighbour
SetNextCellText_SameCell(row, c_idx, field_value) ==
    [row EXCEPT ![c_idx + 1] = field_value]

\* row.cells[cell_idx + 1].text = field_value
SetNextCellText(row, c_idx, field_value) ==
    [row EXCEPT ![c_idx + 2] = field_value]

\* the value replacing the text of the cell instead of being appended
AddParagraph_Replace(row, c_idx, field_value) ==
    [row EXCEPT ![c_idx + 1] = field_value]

\* the paragraph added to the cell on the left, which holds the context
AddParagraph_LeftCell(row, c_idx, field_value) ==
    [row EXCEPT ![c_idx] = @ \o <<"\n">> \o field_value]

\* cell.add_paragraph(field_value): the cell's text gains a paragraph
AddParagraph(row, c_idx, field_value) ==
    [row EXCEPT ![c_idx + 1] = @ \o <<"\n">> \o field_value]

\* the filler reporting success when there is no next cell
_fill_cell_by_position_NoBoundCheck(row, c_idx, field_value, info) ==
    IF info.fill_type = "next_cell"
    THEN IF c_idx + 1 < Len(row)
         THEN [success |-> TRUE, row |-> [row EXCEPT ![c_idx + 2] = field_value]]
         ELSE [success |-> TRUE, row |-> row]
    ELSE IF info.fill_type = "same_cell_with_context"
         THEN [success |-> TRUE, row |-> [row EXCEPT ![c_idx + 1] = @ \o <<"\n">> \o field_value]]
         ELSE [success |-> FALSE, row |-> row]

\* the value returned and the row as the call leaves it
_fill_cell_by_position(row, c_idx, field_value, info) ==
    IF info.fill_type = "next_cell"
    THEN IF c_idx + 1 < Len(row)
         THEN [success |-> TRUE, row |-> SetNextCellText(row, c_idx, field_value)]
         ELSE [success |-> FALSE, row |-> row]
    ELSE IF info.fill_type = "same_cell_with_context"
         THEN [success |-> TRUE, row |-> AddParagraph(row, c_idx, field_value)]
         ELSE [success |-> FALSE, row |-> row]

-----------------------------------------------------------------------------
(* stage3_position_aware_template_filling *)

NoDocument == <<"no document">>

ARROW == <<" ", "-", ">", " ">>
ELLIPSIS == <<".", ".", ".">>
\* ": 填充失败"
FILL_FAILED == <<":", " ", "u586B", "u5145", "u5931", "u8D25">>

\* the length field_value is cut to in a filled_fields entry
PreviewLen == 50

\* f"{field_key} -> {field_value[:50]}{'...' if len(field_value) > 50 else ''}"
FilledEntry(field_key, field_value) ==
    field_key \o ARROW
        \o SubSeq(field_value, 1, IF Len(field_value) < PreviewLen THEN Len(field_value) ELSE PreviewLen)
        \o (IF Len(field_value) > PreviewLen THEN ELLIPSIS ELSE <<>>)

\* f"{field_key}: 填充失败"
SkippedEntry(field_key) == field_key \o FILL_FAILED

\* the loop that builds position_matches
BuildMatches(md) ==
    LET cand == {i \in 1..Len(md) :
                    md[i].value # <<>> /\ _parse_position_key(md[i].key) # None}
    IN  [k \in {md[i].key : i \in cand} |-> _parse_position_key(k)]

\* a lookup that gives a key without a decoded position the first cell
GetMatch_Default(pm, field_key) ==
    IF field_key \in DOMAIN pm THEN pm[field_key]
    ELSE [row |-> 0, col |-> 0, field_name |-> <<>>, fill_type |-> "next_cell"]

\* position_matches.get(field_key)
GetMatch(pm, field_key) == IF field_key \in DOMAIN pm THEN pm[field_key] ELSE None

\* _validate_unfilled_fields
FilledFieldKeys(filled) == [i \in 1..Len(filled) |-> Split(filled[i], ARROW)[1]]

RECURSIVE SelectNotIn(_, _)
SelectNotIn(keys, excluded) ==
    IF keys = <<>> THEN <<>>
    ELSE (IF \E i \in 1..Len(excluded) : excluded[i] = Head(keys)
          THEN <<>> ELSE <<Head(keys)>>) \o SelectNotIn(Tail(keys), excluded)

\* the template keys compared with whole entries of filled_fields
_validate_unfilled_fields_NoSplit(ts, filled) == SelectNotIn(ts, filled)

_validate_unfilled_fields(ts, filled) == SelectNotIn(ts, FilledFieldKeys(filled))

Table == tables[1]

\* the loops over table.rows and row.cells: where the scan goes after a cell
AfterCell(table, r_idx, c_idx) ==
    IF c_idx + 1 < Len(table[r_idx + 1])
    THEN [more |-> TRUE, row |-> r_idx, cell |-> c_idx + 1]
    ELSE IF r_idx + 1 < Len(table)
         THEN [more |-> TRUE, row |-> r_idx + 1, cell |-> 0]
         ELSE [more |-> FALSE, row |-> r_idx, cell |-> c_idx]

FillUnchanged == UNCHANGED <<position_key, position_info, input_data, fb_mapped, t_idx, i_idx>>

TemplateMissing ==
    /\ pc = "stage3"
    /\ ~template_exists
    /\ result' = FALSE
    /\ pc' = "done"
    /\ UNCHANGED <<template_exists, tables, tables0, mapped_data, template_structure,
                   position_matches, filled_fields, skipped_fields, row_idx, cell_idx,
                   field_idx, cell_text, last_fill, saved, unfilled_keys>>
    /\ FillUnchanged

\* a document without tables saved and reported as a success
NoTables_Saves ==
    /\ pc = "stage3"
    /\ template_exists
    /\ tables = <<>>
    /\ saved' = tables
    /\ result' = TRUE
    /\ pc' = "done"
    /\ UNCHANGED <<template_exists, tables, tables0, mapped_data, template_structure,
                   position_matches, filled_fields, skipped_fields, row_idx, cell_idx,
                   field_idx, cell_text, last_fill, unfilled_keys>>
    /\ UNCHANGED <<position_key, position_info, input_data, fb_mapped, t_idx, i_idx>>

NoTables ==
    /\ pc = "stage3"
    /\ template_exists
    /\ tables = <<>>
    /\ result' = FALSE
    /\ pc' = "done"
    /\ UNCHANGED <<template_exists, tables, tables0, mapped_data, template_structure,
                   position_matches, filled_fields, skipped_fields, row_idx, cell_idx,
                   field_idx, cell_text, last_fill, saved, unfilled_keys>>
    /\ FillUnchanged

BuildPositionMatches ==
    /\ pc = "stage3"
    /\ template_exists
    /\ tables # <<>>
    /\ position_matches' = BuildMatches(mapped_data)
    /\ filled_fields' = <<>>
    /\ skipped_fields' = <<>>
    /\ row_idx' = 0
    /\ cell_idx' = 0
    /\ pc' = IF Table # <<>> THEN "cell" ELSE "save"
    /\ UNCHANGED <<template_exists, tables, tables0, mapped_data, template_structure,
                   field_idx, cell_text, last_fill, saved, unfilled_keys, result>>
    /\ FillUnchanged

\* the steps that end an iteration of the loop over the cells
NextCell ==
    LET nxt == AfterCell(Table, row_idx, cell_idx) IN
    /\ row_idx' = nxt.row
    /\ cell_idx' = nxt.cell
    /\ field_idx' = 1
    /\ pc' = IF nxt.more THEN "cell" ELSE "save"

\* cell_text = cell.text.strip()
EnterCell ==
    /\ pc = "cell"
    /\ cell_text' = Strip(Table[row_idx + 1][cell_idx + 1])
    /\ IF mapped_data = <<>>
       THEN NextCell
       ELSE /\ field_idx' = 1
            /\ pc' = "field"
            /\ UNCHANGED <<row_idx, cell_idx>>
    /\ UNCHANGED <<template_exists, tables, tables0, mapped_data, template_structure,
                   position_matches, filled_fields, skipped_fields, last_fill, saved,
                   unfilled_keys, result>>
    /\ FillUnchanged

\* one iteration of the loop over mapped_data.items()
TryField ==
    /\ pc = "field"
    /\ LET field_key == mapped_data[field_idx].key
           field_value == mapped_data[field_idx].value
           info == GetMatch(position_matches, field_key)
           row == Table[row_idx + 1]
           hit == /\ field_value # <<>>
                  /\ info # None
                  /\ _is_position_match(row_idx, cell_idx, cell_text, info, row)
           fill == _fill_cell_by_position(row, cell_idx, field_value, info)
       IN  /\ IF hit
              THEN /\ tables' = [tables EXCEPT ![1][row_idx + 1] = fill.row]
                   /\ IF fill.success
                      THEN /\ filled_fields' = Append(filled_fields, FilledEntry(field_key, field_value))
                           /\ UNCHANGED skipped_fields
                      ELSE /\ skipped_fields' = Append(skipped_fields, SkippedEntry(field_key))
                           /\ UNCHANGED filled_fields
                   /\ last_fill' = [key |-> field_key, value |-> field_value, info |-> info,
                                    row_idx |-> row_idx, cell_idx |-> cell_idx,
                                    success |-> fill.success]
              ELSE UNCHANGED <<tables, filled_fields, skipped_fields, last_fill>>
           /\ IF field_idx < Len(mapped_data)
              THEN /\ field_idx' = field_idx + 1
                   /\ UNCHANGED <<pc, row_idx, cell_idx>>
              ELSE NextCell
    /\ UNCHANGED <<template_exists, tables0, mapped_data, template_structure,
                   position_matches, cell_text, saved, unfilled_keys, result>>
    /\ FillUnchanged

\* doc.save(output_path), _validate_unfilled_fields, return True
SaveDocument ==
    /\ pc = "save"
    /\ saved' = tables
    /\ unfilled_keys' = _validate_unfilled_fields(template_structure, filled_fields)
    /\ result' = TRUE
    /\ pc' = "done"
    /\ UNCHANGED <<template_exists, tables, tables0, mapped_data, template_structure,
                   position_matches, filled_fields, skipped_fields, row_idx, cell_idx,
                   field_idx, cell_text, last_fill>>
    /\ FillUnchanged

-----------------------------------------------------------------------------
(* _fallback_field_mapping *)

mapping_rules ==
    <<
       [semantic_key |-> <<"s", "e", "r", "i", "a", "l", "_", "n", "u", "m", "b", "e", "r">>,
        possible_names |-> << <<"u7F16", "u53F7">>,
                           <<"n", "u", "m", "b", "e", "r">>,
                           <<"i", "d">> >>],
       [semantic_key |-> <<"p", "r", "o", "j", "e", "c", "t", "_", "n", "a", "m", "e">>,
        possible_names |-> << <<"u9879", "u76EE", "u540D", "u79F0">>,
                           <<"n", "a", "m", "e">>,
                           <<"t", "i", "t", "l", "e">> >>],
       [semantic_key |-> <<"r", "e", "v", "i", "e", "w", "_", "d", "a", "t", "e">>,
        possible_names |-> << <<"u590D", "u6838", "u65E5", "u671F">>,
                           <<"d", "a", "t", "e">>,
                           <<"c", "h", "e", "c", "k", "_", "d", "a", "t", "e">> >>],
       [semantic_key |-> <<"o", "r", "i", "g", "i", "n", "a", "l", "_", "c", "o", "n", "d", "i", "t", "i", "o", "n", "_", "r", "e", "v", "i", "e", "w">>,
        possible_names |-> << <<"u539F", "u5F62", "u5236">>,
                           <<"o", "r", "i", "g", "i", "n", "a", "l", "_", "s", "t", "a", "t", "e">>,
                           <<"o", "r", "i", "g", "i", "n", "a", "l", "_", "f", "o", "r", "m">> >>],
       [semantic_key |-> <<"d", "a", "m", "a", "g", "e", "_", "a", "s", "s", "e", "s", "s", "m", "e", "n", "t", "_", "r", "e", "v", "i", "e", "w">>,
        possible_names |-> << <<"u75C5", "u5BB3", "u548C", "u6B8B", "u635F">>,
                           <<"d", "a", "m", "a", "g", "e">>,
                           <<"d", "e", "t", "e", "r", "i", "o", "r", "a", "t", "i", "o", "n">> >>],
       [semantic_key |-> <<"r", "e", "p", "a", "i", "r", "_", "p", "l", "a", "n", "_", "r", "e", "v", "i", "e", "w">>,
        possible_names |-> << <<"u4FEE", "u7F2E", "u505A", "u6CD5">>,
                           <<"r", "e", "p", "a", "i", "r", "_", "m", "e", "t", "h", "o", "d">>,
                           <<"r", "e", "p", "a", "i", "r", "_", "p", "l", "a", "n">> >>],
       [semantic_key |-> <<"p", "r", "o", "j", "e", "c", "t", "_", "l", "e", "a", "d">>,
        possible_names |-> << <<"u9879", "u76EE", "u8D1F", "u8D23", "u4EBA">>,
                           <<"p", "r", "o", "j", "e", "c", "t", "_", "m", "a", "n", "a", "g", "e", "r">>,
                           <<"m", "a", "n", "a", "g", "e", "r">>,
                           <<"l", "e", "a", "d">> >>],
       [semantic_key |-> <<"r", "e", "v", "i", "e", "w", "e", "r">>,
        possible_names |-> << <<"u590D", "u6838", "u4EBA", "u5458">>,
                           <<"r", "e", "v", "i", "e", "w", "e", "r", "s">>,
                           <<"c", "h", "e", "c", "k", "e", "r">> >>]
    >>

\* the direct rule without the scan of the synonym lists
AnyRuleIn_Never(template_key) == FALSE

\* any(rule in template_key for rule_list in mapping_rules.values() for rule in rule_list)
AnyRuleIn(template_key) ==
    \E g \in 1..Len(mapping_rules) :
        \E n \in 1..Len(mapping_rules[g].possible_names) :
            IsSubstring(mapping_rules[g].possible_names[n], template_key)

\* the direct rule with equality in place of containment
DirectMatch_Equal(input_key, template_key) ==
    input_key = template_key \/ AnyRuleIn(template_key)

\* the test of the direct rule
DirectMatch(input_key, template_key) ==
    IsSubstring(input_key, template_key) \/ AnyRuleIn(template_key)

\* the loop of the semantic rule: some group passes both of its tests
SemanticMatch(input_key, template_key) ==
    \E g \in 1..Len(mapping_rules) :
        /\ \/ \E n \in 1..Len(mapping_rules[g].possible_names) :
                    mapping_rules[g].possible_names[n] = input_key
           \/ input_key = mapping_rules[g].semantic_key
        /\ \E n \in 1..Len(mapping_rules[g].possible_names) :
                IsSubstring(mapping_rules[g].possible_names[n], template_key)

\* d[k] = v on a dict kept in insertion order
DictSet(d, k, v) ==
    IF \E i \in 1..Len(d) : d[i].key = k
    THEN [i \in 1..Len(d) |-> IF d[i].key = k THEN [key |-> k, value |-> v] ELSE d[i]]
    ELSE Append(d, [key |-> k, value |-> v])

FallbackUnchanged ==
    UNCHANGED <<position_key, position_info, template_exists, tables, tables0,
                mapped_data, position_matches, filled_fields, skipped_fields, row_idx,
                cell_idx, field_idx, cell_text, last_fill, saved, unfilled_keys, result>>

\* the iteration without the break of the direct rule
FallbackTryInput_NoBreak ==
    /\ pc = "fallback"
    /\ t_idx <= Len(template_structure)
    /\ i_idx <= Len(input_data)
    /\ LET template_key == template_structure[t_idx]
           input_key == input_data[i_idx].key
           input_value == input_data[i_idx].value
       IN  fb_mapped' = IF /\ input_value # <<>>
                           /\ \/ DirectMatch(input_key, template_key)
                              \/ SemanticMatch(input_key, template_key)
                        THEN DictSet(fb_mapped, template_key, input_value)
                        ELSE fb_mapped
    /\ i_idx' = i_idx + 1
    /\ UNCHANGED <<pc, t_idx, template_structure, input_data>>
    /\ FallbackUnchanged

\* one iteration of the loop over input_data.items() for template key t_idx
FallbackTryInput ==
    /\ pc = "fallback"
    /\ t_idx <= Len(template_structure)
    /\ i_idx <= Len(input_data)
    /\ LET template_key == template_structure[t_idx]
           input_key == input_data[i_idx].key
           input_value == input_data[i_idx].value
       IN  IF input_value # <<>> /\ DirectMatch(input_key, template_key)
           THEN /\ fb_mapped' = DictSet(fb_mapped, template_key, input_value)
                /\ t_idx' = t_idx + 1
                /\ i_idx' = 1
           ELSE /\ fb_mapped' = IF input_value # <<>> /\ SemanticMatch(input_key, template_key)
                                THEN DictSet(fb_mapped, template_key, input_value)
                                ELSE fb_mapped
                /\ i_idx' = i_idx + 1
                /\ UNCHANGED t_idx
    /\ UNCHANGED <<pc, template_structure, input_data>>
    /\ FallbackUnchanged

\* the loop over input_data.items() ends without a break
FallbackNextTemplate ==
    /\ pc = "fallback"
    /\ t_idx <= Len(template_structure)
    /\ i_idx > Len(input_data)
    /\ t_idx' = t_idx + 1
    /\ i_idx' = 1
    /\ UNCHANGED <<pc, template_structure, input_data, fb_mapped>>
    /\ FallbackUnchanged

\* return mapped_data
FallbackReturn ==
    /\ pc = "fallback"
    /\ t_idx > Len(template_structure)
    /\ pc' = "fallback_done"
    /\ UNCHANGED <<template_structure, input_data, fb_mapped, t_idx, i_idx>>
    /\ FallbackUnchanged

-----------------------------------------------------------------------------
(* _parse_position_key as a call *)

ParseKey ==
    /\ pc = "parse"
    /\ position_info' = _parse_position_key(position_key)
    /\ pc' = "parsed"
    /\ UNCHANGED <<position_key, template_exists, tables, tables0, mapped_data,
                   template_structure, position_matches, filled_fields, skipped_fields,
                   row_idx, cell_idx, field_idx, cell_text, last_fill, saved,
                   unfilled_keys, result, input_data, fb_mapped, t_idx, i_idx>>

-----------------------------------------------------------------------------
(* The inputs *)

MaxRows == 2
MaxCols == 3
MaxFields == 2
MaxTemplateKeys == 2
MaxInputs == 2
MaxNameParts == 2

\* the sequences of at most n elements of S, no element twice
DistinctSeqs(S, n) ==
    {q \in UNION {[1..m -> S] : m \in 0..n} :
        \A i, j \in 1..Len(q) : i # j => q[i] # q[j]}

\* the dicts of at most n items, keys from K and values from V
Dicts(K, V, n) ==
    {q \in UNION {[1..m -> [key : K, value : V]] : m \in 0..n} :
        \A i, j \in 1..Len(q) : i # j => q[i].key # q[j].key}

Key(parts) == Join(parts, US)

CellTexts == {<<"a", "b">>, <<"b", " ">>}

FieldKeys ==
    {Key(<<ROW, <<"1">>, COL, <<"1">>, <<"a">>>>),
     Key(<<ROW, <<"1">>, COL, <<"2">>, <<" ">>>>),
     Key(<<ROW, <<"1">>, LEFT, <<"a">>, <<"b">>>>),
     Key(<<ROW, <<"1">>, LEFT, <<"a">>, <<" ">>>>),
     Key(<<ROW, <<"2">>, COL, <<"2">>, <<"b">>>>),
     Key(<<ROW, <<"x">>, COL, <<"1">>, <<"a">>>>)}

FieldValues == {<<>>, <<"a">>, <<"v">>}

TemplateKeys ==
    {Key(<<ROW, <<"1">>, COL, <<"1">>, <<"a">>>>),
     Key(<<ROW, <<"1">>, LEFT, <<"a">>, <<"b">>>>)}

\* the tables of a document: rows of the same number of cells
TableSet ==
    {<<>>} \cup UNION {[1..nr -> [1..nc -> CellTexts]] : nr \in 1..MaxRows, nc \in 1..MaxCols}

KeyParts ==
    {ROW, COL, LEFT, <<"f", "o", "o">>, <<"1">>, <<"2">>, <<"0">>, <<"-", "1">>,
     <<"a", "b", "c">>, <<>>}

NameParts == {<<"a", "b", "c">>, <<"x">>, <<>>}

PositionKeys ==
    {Key(h \o t) : h \in UNION {[1..m -> KeyParts] : m \in 1..MinParts},
                   t \in UNION {[1..m -> NameParts] : m \in 0..MaxNameParts}}

FbTemplateKeys ==
    {Key(<<ROW, <<"1">>, COL, <<"1">>, <<"u7F16", "u53F7">>>>),
     Key(<<ROW, <<"2">>, COL, <<"1">>, <<"x">>>>),
     Key(<<ROW, <<"3">>, LEFT, <<"x">>, <<"y">>>>)}

FbInputKeys ==
    {<<"x">>, <<"y">>, <<"z">>, <<"i", "d">>,
     <<"s", "e", "r", "i", "a", "l", "_", "n", "u", "m", "b", "e", "r">>}

FbInputValues == {<<>>, <<"v">>, <<"w">>}

-----------------------------------------------------------------------------
(* The specifications *)

\* variables of stage3 before it runs
IdleFill ==
    /\ position_matches = <<>>
    /\ filled_fields = <<>>
    /\ skipped_fields = <<>>
    /\ row_idx = 0
    /\ cell_idx = 0
    /\ field_idx = 1
    /\ cell_text = <<>>
    /\ last_fill = None
    /\ saved = NoDocument
    /\ unfilled_keys = <<>>
    /\ result = None

IdleParse ==
    /\ position_key = <<>>
    /\ position_info = None

IdleFallback ==
    /\ input_data = <<>>
    /\ fb_mapped = <<>>
    /\ t_idx = 1
    /\ i_idx = 1

\* stage3_position_aware_template_filling is called
Init ==
    /\ pc = "stage3"
    /\ template_exists \in BOOLEAN
    /\ tables \in IF template_exists THEN {<<>>} \cup {<<t>> : t \in TableSet} ELSE {<<>>}
    /\ tables0 = tables
    /\ mapped_data \in Dicts(FieldKeys, FieldValues, MaxFields)
    /\ template_structure \in DistinctSeqs(TemplateKeys, MaxTemplateKeys)
    /\ IdleFill
    /\ IdleParse
    /\ IdleFallback

Next ==
    \/ TemplateMissing
    \/ NoTables
    \/ BuildPositionMatches
    \/ EnterCell
    \/ TryField
    \/ SaveDocument

Spec == Init /\ [][Next]_vars

\* _parse_position_key is called
InitParse ==
    /\ pc = "parse"
    /\ position_key \in PositionKeys
    /\ position_info = None
    /\ template_exists = FALSE
    /\ tables = <<>>
    /\ tables0 = <<>>
    /\ mapped_data = <<>>
    /\ template_structure = <<>>
    /\ IdleFill
    /\ IdleFallback

NextParse == ParseKey

SpecParse == InitParse /\ [][NextParse]_vars

\* _fallback_field_mapping is called
InitFallback ==
    /\ pc = "fallback"
    /\ template_structure \in DistinctSeqs(FbTemplateKeys, MaxTemplateKeys)
    /\ input_data \in Dicts(FbInputKeys, FbInputValues, MaxInputs)
    /\ fb_mapped = <<>>
    /\ t_idx = 1
    /\ i_idx = 1
    /\ template_exists = FALSE
    /\ tables = <<>>
    /\ tables0 = <<>>
    /\ mapped_data = <<>>
    /\ IdleFill
    /\ IdleParse

NextFallback ==
    \/ FallbackTryInput
    \/ FallbackNextTemplate
    \/ FallbackReturn

SpecFallback == InitFallback /\ [][NextFallback]_vars

-----------------------------------------------------------------------------
(* Properties of _parse_position_key, under SpecParse *)

MaxNumeral == 3

DigitChars == <<"0", "1", "2", "3", "4", "5", "6", "7", "8", "9">>

\* the decimal text of a natural number
RECURSIVE Numeral(_)
Numeral(n) ==
    IF n < 10 THEN <<DigitChars[n + 1]>>
    ELSE Numeral(n \div 10) \o <<DigitChars[(n % 10) + 1]>>

KeyPartsOf(key) == Split(key, US)

\* what follows the fourth underscore of a key of more than four parts
AfterFourthUnderscore(key) ==
    LET parts == KeyPartsOf(key) IN
    SubSeq(key, Len(parts[1]) + Len(parts[2]) + Len(parts[3]) + Len(parts[4]) + 5, Len(key))

\* C2: a key whose first underscore-separated segment is not the literal
\* "row" decodes to invalid, whatever its other segments are; so do
\* row_abc_col_2_x and row_1_col.
C2_FirstSegmentMustBeRow ==
    pc = "parsed" =>
        /\ KeyPartsOf(position_key)[1] # ROW => position_info = None
        /\ position_key = Key(<<ROW, <<"a", "b", "c">>, COL, <<"2">>, <<"x">>>>)
              => position_info = None
        /\ position_key = Key(<<ROW, <<"1">>, COL>>) => position_info = None

\* C3: every descriptor decode returns has row >= 0, and col >= 0 when its
\* fill type is NEXT_CELL; a zero or negative row or column number decodes
\* to invalid.
C3_IndicesNonNegative ==
    (pc = "parsed" /\ position_info # None) =>
        /\ position_info.row >= 0
        /\ position_info.fill_type = "next_cell" => position_info.col >= 0

\* C4: row_<N>_col_<M>_<name> with N, M >= 1 decodes to the NEXT_CELL
\* descriptor with row N-1, col M-1 and the whole of <name>, underscores
\* included, as field name; row_<N>_left_<ctx>_<name> with N >= 1 decodes
\* to the SAME_CELL_WITH_CONTEXT descriptor with row N-1, context ctx,
\* col unresolved (-1) and the whole of <name> as field name.
C4_WellFormedKeyDecodes ==
    LET parts == KeyPartsOf(position_key) IN
    (pc = "parsed" /\ Len(parts) > MinParts /\ parts[1] = ROW) =>
        \A n \in 1..MaxNumeral :
            parts[2] = Numeral(n) =>
                /\ parts[3] = COL =>
                      \A m \in 1..MaxNumeral :
                          parts[4] = Numeral(m) =>
                              position_info =
                                  [row |-> n - 1,
                                   col |-> m - 1,
                                   field_name |-> AfterFourthUnderscore(position_key),
                                   fill_type |-> "next_cell"]
                /\ parts[3] = LEFT =>
                      position_info =
                          [row |-> n - 1,
                           col |-> -1,
                           context |-> parts[4],
                           field_name |-> AfterFourthUnderscore(position_key),
                           fill_type |-> "same_cell_with_context"]

\* a key of the left form whose field name holds an underscore was decoded
C4_Witness ==
    /\ pc = "parsed"
    /\ position_key = Key(<<ROW, <<"2">>, LEFT, <<"a", "b", "c">>, <<"a", "b", "c">>, <<"x">>>>)
    /\ position_info.fill_type = "same_cell_with_context"
    /\ position_info.field_name = <<"a", "b", "c", "_", "x">>

-----------------------------------------------------------------------------
(* Properties of the fill pass, under Spec *)

Range(q) == {q[i] : i \in 1..Len(q)}

IsPrefix(a, b) == Len(a) <= Len(b) /\ SubSeq(b, 1, Len(a)) = a

IsSuffix(a, b) == Len(a) <= Len(b) /\ SubSeq(b, Len(b) - Len(a) + 1, Len(b)) = a

\* the field the loop over mapped_data.items() is at
CurKey == mapped_data[field_idx].key
CurValue == mapped_data[field_idx].value
CurInfo == position_matches[CurKey]

\* the loop is at a candidate: a key with a value and a decoded position
AtCandidate ==
    /\ pc = "field"
    /\ CurValue # <<>>
    /\ CurKey \in DOMAIN position_matches

\* the row and the cell the scan is at, as they are now
CurRow == Table[row_idx + 1]
CurText == CurRow[cell_idx + 1]

\* this step called the filler: it recorded one more filled or skipped field
FillCalled ==
    Len(filled_fields') + Len(skipped_fields') = Len(filled_fields) + Len(skipped_fields) + 1

\* the number of entries of filled_fields and skipped_fields a field has
EntryCount(field_key, field_value) ==
    Cardinality({i \in 1..Len(filled_fields) :
                    filled_fields[i] = FilledEntry(field_key, field_value)})
    + Cardinality({i \in 1..Len(skipped_fields) :
                    skipped_fields[i] = SkippedEntry(field_key)})

\* C1: first-match-wins: a key is applied to at most one cell, so it appears
\* at most once in filled and skipped together.
C1_FirstMatchWins ==
    \A i \in 1..Len(mapped_data) :
        EntryCount(mapped_data[i].key, mapped_data[i].value) <= 1

\* C5 as claimed: a NEXT_CELL candidate (r, c, f) matches the scanned cell
\* iff the cell is at row r and column c and f is a substring of the cell's
\* text; when it matches and column c+1 exists, cell (r, c+1) then holds
\* exactly the value and cell (r, c) is unchanged.
C5_NextCellOnCellText ==
    [][ (AtCandidate /\ CurInfo.fill_type = "next_cell") =>
            /\ FillCalled <=> /\ row_idx = CurInfo.row
                              /\ cell_idx = CurInfo.col
                              /\ IsSubstring(CurInfo.field_name, CurText)
            /\ (FillCalled /\ cell_idx + 1 < Len(CurRow)) =>
                    /\ tables'[1][row_idx + 1][cell_idx + 2] = CurValue
                    /\ tables'[1][row_idx + 1][cell_idx + 1] = CurText ]_vars

\* C5 amended: the substring test is on the text the cell had when the scan
\* entered it, stripped of leading and trailing whitespace (cell_text).
C5_NextCellOnStrippedText ==
    [][ /\ (pc = "field" /\ field_idx = 1) => cell_text = Strip(CurText)
        /\ (pc = "field" /\ pc' = "field") => cell_text' = cell_text
        /\ (AtCandidate /\ CurInfo.fill_type = "next_cell") =>
            /\ FillCalled <=> /\ row_idx = CurInfo.row
                              /\ cell_idx = CurInfo.col
                              /\ IsSubstring(CurInfo.field_name, cell_text)
            /\ (FillCalled /\ cell_idx + 1 < Len(CurRow)) =>
                    /\ tables'[1][row_idx + 1][cell_idx + 2] = CurValue
                    /\ tables'[1][row_idx + 1][cell_idx + 1] = CurText ]_vars

\* a NEXT_CELL candidate matched and its value is in the cell to the right
C5_Witness ==
    /\ last_fill # None
    /\ last_fill.info.fill_type = "next_cell"
    /\ last_fill.success
    /\ tables[1][last_fill.row_idx + 1][last_fill.cell_idx + 2] = last_fill.value
    /\ tables[1][last_fill.row_idx + 1][last_fill.cell_idx + 1]
          = tables0[1][last_fill.row_idx + 1][last_fill.cell_idx + 1]

\* C6 as claimed: a SAME_CELL_WITH_CONTEXT candidate (r, x, f) matches the
\* scanned cell iff the cell is at row r, its column index is above 0, f is
\* a substring of the cell's text and x is a substring of the text of its
\* left neighbour; when it matches, the value is appended to the cell, whose
\* previous text stays as a prefix, and the left neighbour is not modified.
C6_SameCellOnCellText ==
    [][ (AtCandidate /\ CurInfo.fill_type = "same_cell_with_context") =>
            /\ FillCalled <=> /\ row_idx = CurInfo.row
                              /\ cell_idx > 0
                              /\ IsSubstring(CurInfo.field_name, CurText)
                              /\ IsSubstring(CurInfo.context, CurRow[cell_idx])
            /\ FillCalled =>
                    /\ IsPrefix(CurText, tables'[1][row_idx + 1][cell_idx + 1])
                    /\ IsSuffix(CurValue, tables'[1][row_idx + 1][cell_idx + 1])
                    /\ Len(tables'[1][row_idx + 1][cell_idx + 1]) >= Len(CurText) + Len(CurValue)
                    /\ tables'[1][row_idx + 1][cell_idx] = CurRow[cell_idx] ]_vars

\* C6 amended: the substring test for f is on the text the cell had when the
\* scan entered it, stripped of leading and trailing whitespace (cell_text);
\* the context test is on the left neighbour's text as it is at the test.
C6_SameCellOnStrippedText ==
    [][ /\ (pc = "field" /\ field_idx = 1) => cell_text = Strip(CurText)
        /\ (pc = "field" /\ pc' = "field") => cell_text' = cell_text
        /\ (AtCandidate /\ CurInfo.fill_type = "same_cell_with_context") =>
            /\ FillCalled <=> /\ row_idx = CurInfo.row
                              /\ cell_idx > 0
                              /\ IsSubstring(CurInfo.field_name, cell_text)
                              /\ IsSubstring(CurInfo.context, CurRow[cell_idx])
            /\ FillCalled =>
                    /\ IsPrefix(CurText, tables'[1][row_idx + 1][cell_idx + 1])
                    /\ IsSuffix(CurValue, tables'[1][row_idx + 1][cell_idx + 1])
                    /\ Len(tables'[1][row_idx + 1][cell_idx + 1]) >= Len(CurText) + Len(CurValue)
                    /\ tables'[1][row_idx + 1][cell_idx] = CurRow[cell_idx] ]_vars

\* a SAME_CELL_WITH_CONTEXT candidate matched and its value ends the cell
C6_Witness ==
    /\ last_fill # None
    /\ last_fill.info.fill_type = "same_cell_with_context"
    /\ last_fill.success
    /\ IsSuffix(last_fill.value, tables[1][last_fill.row_idx + 1][last_fill.cell_idx + 1])
    /\ IsPrefix(tables0[1][last_fill.row_idx + 1][last_fill.cell_idx + 1],
                tables[1][last_fill.row_idx + 1][last_fill.cell_idx + 1])

\* C7: a document with zero tables makes the pass report failure; no cell is
\* mutated, no field is recorded as filled or skipped, no document is written.
C7_NoTablesIsFatal ==
    (template_exists /\ tables0 = <<>>) =>
        /\ tables = tables0
        /\ filled_fields = <<>>
        /\ skipped_fields = <<>>
        /\ saved = NoDocument
        /\ pc = "done" => result = FALSE

\* the pass over a document with zero tables has returned
C7_Witness ==
    /\ pc = "done"
    /\ template_exists
    /\ tables0 = <<>>
    /\ mapped_data # <<>>
    /\ result = FALSE

\* the value mapped_data holds for a key, empty when it holds none
IntendedValue(k) ==
    IF \E i \in 1..Len(mapped_data) : mapped_data[i].key = k
    THEN mapped_data[CHOOSE i \in 1..Len(mapped_data) : mapped_data[i].key = k].value
    ELSE <<>>

\* the text of a filled_fields entry before its first " -> "
EntryLead(e) ==
    LET ends == {n \in 0..(Len(e) - Len(ARROW)) : SubSeq(e, n + 1, n + Len(ARROW)) = ARROW}
    IN  IF ends = {} THEN e
        ELSE SubSeq(e, 1, CHOOSE n \in ends : \A m \in ends : n <= m)

FilledKeys == {EntryLead(filled_fields[i]) : i \in 1..Len(filled_fields)}

NotFilled(k) == k \notin FilledKeys

\* C8 as claimed: unfilled holds exactly the template keys whose intended
\* value is non-empty and that are not among the filled keys; its size is
\* the number of template keys with a non-empty intended value minus the
\* number of them that were filled.
C8_UnfilledOfIntended ==
    LET intended == {k \in Range(template_structure) : IntendedValue(k) # <<>>} IN
    (pc = "done" /\ result = TRUE) =>
        /\ Range(unfilled_keys) = intended \ FilledKeys
        /\ Len(unfilled_keys) = Cardinality(intended) - Cardinality(intended \cap FilledKeys)

\* C8 amended: unfilled holds, in template order, exactly the template keys
\* that are not the leading text (up to the first " -> ") of a filled entry,
\* whatever their intended value; its size is the number of template keys
\* minus the number of them that were filled.
C8_UnfilledOfTemplate ==
    (pc = "done" /\ result = TRUE) =>
        /\ unfilled_keys = SelectSeq(template_structure, NotFilled)
        /\ Len(unfilled_keys) =
              Len(template_structure) - Cardinality(Range(template_structure) \cap FilledKeys)

\* a pass ended with one template key filled and another one not
C8_Witness ==
    /\ pc = "done"
    /\ result = TRUE
    /\ Len(template_structure) = 2
    /\ Len(unfilled_keys) = 1
    /\ Range(template_structure) \cap FilledKeys # {}

\* the position of the scan after the current field, whatever the field did
ScanAdvances ==
    IF field_idx < Len(mapped_data)
    THEN /\ pc' = "field"
         /\ field_idx' = field_idx + 1
         /\ row_idx' = row_idx
         /\ cell_idx' = cell_idx
    ELSE IF cell_idx + 1 < Len(CurRow)
         THEN pc' = "cell" /\ row_idx' = row_idx /\ cell_idx' = cell_idx + 1
         ELSE IF row_idx + 1 < Len(Table)
              THEN pc' = "cell" /\ row_idx' = row_idx + 1 /\ cell_idx' = 0
              ELSE pc' = "save"

\* C9: a NEXT_CELL candidate that matches the last cell of its row mutates
\* no cell, is recorded in skipped and not in filled, and the scan goes on
\* to the next candidate or cell; a pass over a document with a table ends
\* in success with the document saved as filled.
C9_SoftFillFailure ==
    [][ /\ (/\ AtCandidate
            /\ CurInfo.fill_type = "next_cell"
            /\ row_idx = CurInfo.row
            /\ cell_idx = CurInfo.col
            /\ IsSubstring(CurInfo.field_name, cell_text)
            /\ cell_idx + 1 = Len(CurRow)) =>
                /\ tables' = tables
                /\ skipped_fields' = Append(skipped_fields, SkippedEntry(CurKey))
                /\ filled_fields' = filled_fields
                /\ \A i \in 1..Len(filled_fields) : EntryLead(filled_fields[i]) # CurKey
                /\ ScanAdvances
        /\ pc = "save" => (pc' = "done" /\ result' = TRUE /\ saved' = tables) ]_vars

\* a pass ended in success with one field skipped and another one filled
C9_Witness ==
    /\ pc = "done"
    /\ result = TRUE
    /\ skipped_fields # <<>>
    /\ filled_fields # <<>>
    /\ saved = tables

-----------------------------------------------------------------------------
(* Properties of _fallback_field_mapping, under SpecFallback *)

\* some input field has a value
SomeInputValue == \E i \in 1..Len(input_data) : input_data[i].value # <<>>

\* every synonym token of every group
SynonymTokens ==
    UNION {Range(mapping_rules[g].possible_names) : g \in 1..Len(mapping_rules)}

\* the template key holds a synonym token or the key of an input field that has a value
Mappable(template_key) ==
    \/ \E tok \in SynonymTokens : IsSubstring(tok, template_key)
    \/ \E i \in 1..Len(input_data) :
            input_data[i].value # <<>> /\ IsSubstring(input_data[i].key, template_key)

\* C10 as claimed: with a non-empty template key set and an input field
\* that has a value, the returned mapping is not empty.
C10_EmptyOnlyIfInputsEmpty ==
    (pc = "fallback_done" /\ template_structure # <<>> /\ SomeInputValue) =>
        fb_mapped # <<>>

\* C10 amended: the returned mapping is not empty exactly when an input
\* field has a value and some template key holds a synonym token or the
\* key of an input field that has a value.
C10_EmptyIffNothingMappable ==
    pc = "fallback_done" =>
        (fb_mapped # <<>> <=>
            (SomeInputValue /\ \E t \in 1..Len(template_structure) :
                                    Mappable(template_structure[t])))

\* the mapper returned a mapping for inputs that hold no synonym token
C10_Witness ==
    /\ pc = "fallback_done"
    /\ fb_mapped # <<>>
    /\ \A t \in 1..Len(template_structure) :
          \A tok \in SynonymTokens : ~IsSubstring(tok, template_structure[t])

\* the input field is in a group (as its canonical key or a synonym) of
\* which the template key holds a synonym
SameGroup(input_key, template_key) ==
    \E g \in 1..Len(mapping_rules) :
        /\ input_key \in Range(mapping_rules[g].possible_names) \cup {mapping_rules[g].semantic_key}
        /\ \E tok \in Range(mapping_rules[g].possible_names) : IsSubstring(tok, template_key)

\* input field i has a value and satisfies the direct or the semantic rule
Satisfies(i, template_key) ==
    /\ input_data[i].value # <<>>
    /\ \/ IsSubstring(input_data[i].key, template_key)
       \/ \E tok \in SynonymTokens : IsSubstring(tok, template_key)
       \/ SameGroup(input_data[i].key, template_key)

\* the values the mapping records for a key
RecordedValues(template_key) ==
    {fb_mapped[j].value : j \in {n \in 1..Len(fb_mapped) : fb_mapped[n].key = template_key}}

\* every template key has the value of its first satisfying input field, or none
FirstSatisfyingWins ==
    /\ \A t \in 1..Len(template_structure) :
          LET sat == {i \in 1..Len(input_data) : Satisfies(i, template_structure[t])} IN
          IF sat = {}
          THEN RecordedValues(template_structure[t]) = {}
          ELSE RecordedValues(template_structure[t])
                  = {input_data[CHOOSE i \in sat : \A k \in sat : i <= k].value}
    /\ \A j \in 1..Len(fb_mapped) :
          /\ fb_mapped[j].key \in Range(template_structure)
          /\ fb_mapped[j].value # <<>>
          /\ \E i \in 1..Len(input_data) : input_data[i].value = fb_mapped[j].value

\* C11: the value recorded for a template key is the value of the first
\* input field, in input order and skipping empty values, that satisfies
\* the direct or the semantic rule; a key once set keeps its value; every
\* output key is a template key and every output value a non-empty input value.
C11_FirstSatisfyingInputWins ==
    [][ /\ \A j \in 1..Len(fb_mapped) :
              j <= Len(fb_mapped') /\ fb_mapped'[j] = fb_mapped[j]
        /\ pc' = "fallback_done" => FirstSatisfyingWins' ]_vars

\* the mapper returned the value of the second input field: the first one
\* has a value and satisfies no rule
C11_Witness ==
    /\ pc = "fallback_done"
    /\ Len(input_data) = 2
    /\ input_data[1].value # <<>>
    /\ input_data[2].value # input_data[1].value
    /\ fb_mapped # <<>>
    /\ fb_mapped[1].value = input_data[2].value

-----------------------------------------------------------------------------
(* More properties of the fill pass, under Spec *)

\* the key fails to decode or its value is empty
NeverCandidate(field_key, field_value) ==
    field_value = <<>> \/ _parse_position_key(field_key) = None

\* the candidate the loop is at matches the cell the scan is at
CandidateMatches ==
    /\ AtCandidate
    /\ row_idx = CurInfo.row
    /\ IsSubstring(CurInfo.field_name, cell_text)
    /\ IF CurInfo.fill_type = "next_cell"
       THEN cell_idx = CurInfo.col
       ELSE cell_idx > 0 /\ IsSubstring(CurInfo.context, CurRow[cell_idx])

\* C12: a key of mapped_data that fails to decode, or whose value is empty,
\* never becomes a candidate: it mutates no cell, is in neither filled nor
\* skipped, and the other keys are still matched and filled.
C12_NonCandidatesAreInert ==
    [][ /\ (pc = "field" /\ NeverCandidate(CurKey, CurValue)) =>
                /\ tables' = tables
                /\ filled_fields' = filled_fields
                /\ skipped_fields' = skipped_fields
                /\ ScanAdvances
        /\ (filled_fields' # filled_fields \/ skipped_fields' # skipped_fields) =>
              \A i \in 1..Len(mapped_data) :
                  NeverCandidate(mapped_data[i].key, mapped_data[i].value) =>
                      /\ \A j \in 1..Len(filled_fields') :
                            EntryLead(filled_fields'[j]) # mapped_data[i].key
                      /\ \A j \in 1..Len(skipped_fields') :
                            skipped_fields'[j] # SkippedEntry(mapped_data[i].key)
        /\ CandidateMatches => FillCalled ]_vars

\* a pass ended with a field filled after a key with a value that fails to decode
C12_Witness ==
    /\ pc = "done"
    /\ Len(mapped_data) = 2
    /\ mapped_data[1].value # <<>>
    /\ _parse_position_key(mapped_data[1].key) = None
    /\ Len(filled_fields) = 1
    /\ EntryLead(filled_fields[1]) = mapped_data[2].key
    /\ skipped_fields = <<>>

\* two tables with as many rows and as many cells in each row
SameShape(t, u) ==
    /\ Len(t) = Len(u)
    /\ \A r \in 1..Len(t) : Len(t[r]) = Len(u[r])

\* the (row, cell) positions, 1-based, where the text of two tables differs
ChangedCells(t, u) ==
    {rc \in UNION {{<<r, c>> : c \in 1..Len(t[r])} : r \in 1..Len(t)} :
        t[rc[1]][rc[2]] # u[rc[1]][rc[2]]}

\* the documents t and u have the same tables of the same shape
SameDocumentShape(t, u) ==
    /\ Len(t) = Len(u)
    /\ \A k \in 1..Len(t) : SameShape(t[k], u[k])

\* the cell a candidate that matches at the current cell writes to (1-based)
TargetCell ==
    IF CurInfo.fill_type = "next_cell"
    THEN <<row_idx + 1, cell_idx + 2>>
    ELSE <<row_idx + 1, cell_idx + 1>>

\* the cells (1-based) some candidate is able to write to, by its position
WritableCells ==
    {rc \in UNION {{<<r, c>> : c \in 1..Len(Table[r])} : r \in 1..Len(Table)} :
        \E i \in 1..Len(mapped_data) :
            /\ mapped_data[i].value # <<>>
            /\ mapped_data[i].key \in DOMAIN position_matches
            /\ LET info == position_matches[mapped_data[i].key] IN
                /\ info.row = rc[1] - 1
                /\ IF info.fill_type = "next_cell"
                   THEN info.col = rc[2] - 2
                   ELSE rc[2] - 1 > 0}

\* what the pass has changed since the document was opened
FrameSinceOpened ==
    /\ SameDocumentShape(tables0, tables)
    /\ \A k \in 2..Len(tables) : tables[k] = tables0[k]
    /\ tables # <<>> => ChangedCells(tables0[1], tables[1]) \subseteq WritableCells

\* C13: frame of a fill pass.  A step changes the text of at most one cell,
\* and only when a candidate matches at the cell the scan is at: the right
\* neighbour of that cell for a NEXT_CELL candidate, that cell itself for a
\* SAME_CELL_WITH_CONTEXT candidate, in the candidate's decoded row.  No step
\* changes the number of rows or of cells of a row, so when the pass is over
\* every cell that differs from the opened document is such a cell and the
\* rows that are no candidate's decoded row are as they were.
C13_FillFrame ==
    [][ /\ SameDocumentShape(tables, tables')
        /\ \A k \in 2..Len(tables) : tables'[k] = tables[k]
        /\ tables' # tables =>
              /\ CandidateMatches
              /\ row_idx = CurInfo.row
              /\ ChangedCells(tables[1], tables'[1]) = {TargetCell}
        /\ pc' = "done" => FrameSinceOpened' ]_vars

\* a pass that appended to one cell and set its right neighbour, and left
\* the second row, which is no candidate's row, as it was
C13_Witness ==
    /\ pc = "done"
    /\ tables # <<>>
    /\ Len(Table) = 2
    /\ Cardinality(ChangedCells(tables0[1], Table)) = 2
    /\ \E rc \in ChangedCells(tables0[1], Table) :
          IsPrefix(tables0[1][rc[1]][rc[2]] \o <<"\n">>, Table[rc[1]][rc[2]])
    /\ \E rc \in ChangedCells(tables0[1], Table) :
          ~IsPrefix(tables0[1][rc[1]][rc[2]], Table[rc[1]][rc[2]])
    /\ \A rc \in ChangedCells(tables0[1], Table) : rc[1] = 1
    /\ Table[2] = tables0[1][2]

-----------------------------------------------------------------------------
(* The semantic rule of _fallback_field_mapping, under SpecFallback *)

\* the direct rule as the claim words it
DirectRule(input_key, template_key) ==
    \/ IsSubstring(input_key, template_key)
    \/ \E tok \in SynonymTokens : IsSubstring(tok, template_key)

\* the input fields, by index, that have a value and pass the direct rule
DirectFields(template_key, inp) ==
    {i \in 1..Len(inp) : inp[i].value # <<>> /\ DirectRule(inp[i].key, template_key)}

\* the reference mapper: the direct rule only, the first such field wins
RECURSIVE DirectOnlyMapper(_, _)
DirectOnlyMapper(ts, inp) ==
    IF ts = <<>>
    THEN <<>>
    ELSE LET fields == DirectFields(Head(ts), inp)
             first == CHOOSE i \in fields : \A j \in fields : i <= j
         IN  IF fields = {}
             THEN DirectOnlyMapper(Tail(ts), inp)
             ELSE <<[key |-> Head(ts), value |-> inp[first].value]>>
                     \o DirectOnlyMapper(Tail(ts), inp)

\* the loop is at an input field with a value for a template key
AtInputWithValue ==
    /\ pc = "fallback"
    /\ t_idx <= Len(template_structure)
    /\ i_idx <= Len(input_data)
    /\ input_data[i_idx].value # <<>>

\* C14: the semantic rule never contributes.  The mapping returned is the
\* mapping of the reference mapper that applies the direct rule only, the
\* first input field with a value winning; and wherever the loop reaches the
\* semantic rule (the direct rule has failed for a field with a value), the
\* semantic rule fails too, since a template key that holds a synonym of
\* the field's group passes the direct rule.
C14_SemanticRuleNeverContributes ==
    /\ pc = "fallback_done" =>
          fb_mapped = DirectOnlyMapper(template_structure, input_data)
    /\ (/\ AtInputWithValue
        /\ ~DirectRule(input_data[i_idx].key, template_structure[t_idx])) =>
          ~SemanticMatch(input_data[i_idx].key, template_structure[t_idx])

\* a template key with a synonym of the group of the second field, "id",
\* mapped to the value of the first field, which is in no group
C14_Witness ==
    /\ pc = "fallback_done"
    /\ Len(input_data) = 2
    /\ input_data[1].key = <<"z">>
    /\ input_data[1].value # <<>>
    /\ input_data[2].key = <<"i", "d">>
    /\ input_data[2].value # <<>>
    /\ input_data[2].value # input_data[1].value
    /\ \E j \in 1..Len(fb_mapped) :
          /\ SameGroup(input_data[2].key, fb_mapped[j].key)
          /\ fb_mapped[j].value = input_data[1].value

====
